---- MODULE Spec2Model ----
(***************************************************************************)
(* HRMS Lite (server/index.js): an Express server over one SQLite          *)
(* connection.  Two tables (employees, attendance), seven handlers.  Every *)
(* handler is an async function: it runs synchronously up to its next      *)
(* `await` of a store call, and the store executes one statement at a      *)
(* time.  A step of the model is therefore one store statement together    *)
(* with the handler code that follows it up to the next store call (or the *)
(* response).  Requests of different clients interleave at these steps.    *)
(*                                                                         *)
(* Strings are sequences of one-character strings, so that the regular     *)
(* expressions and SQLite's bytewise text comparison are computed, not     *)
(* assumed.                                                                *)
(***************************************************************************)
EXTENDS Naturals, Sequences, FiniteSets

(* ------------------------------ bounds -------------------------------- *)

\* Number of requests that can be in flight at the same time.
MaxReq == 2
\* Cap on the AUTOINCREMENT counter: number of attendance rows ever inserted.
MaxSeq == 2
\* Cap on the clock read by nowIso().
MaxClock == 1

Slots == 1..MaxReq

\* In the specifications of the reading handlers, the slots of the requests
\* that write and the slot of the request that reads.
Writers == 1..(MaxReq - 1)
Readers == {MaxReq}

(* ------------------------------ strings ------------------------------- *)

\* `undefined`: a field absent from the JSON body or the query string.
Undefined == <<"undefined">>

Digits == {"0", "1", "2", "3", "4", "5", "6", "7", "8", "9"}

\* The characters \s matches, among the characters the inputs use.
Whitespace == {" "}

\* Code unit of a character (ASCII), for the characters the inputs use.
Ord(c) ==
  CASE c = " " -> 32
    [] c = "-" -> 45
    [] c = "." -> 46
    [] c = "0" -> 48
    [] c = "1" -> 49
    [] c = "2" -> 50
    [] c = "3" -> 51
    [] c = "4" -> 52
    [] c = "5" -> 53
    [] c = "6" -> 54
    [] c = "7" -> 55
    [] c = "8" -> 56
    [] c = "9" -> 57
    [] c = "@" -> 64
    [] c = "A" -> 65
    [] c = "B" -> 66
    [] c = "E" -> 69
    [] c = "L" -> 76
    [] c = "P" -> 80
    [] c = "a" -> 97
    [] c = "b" -> 98
    [] c = "c" -> 99
    [] c = "e" -> 101
    [] c = "g" -> 103
    [] c = "i" -> 105
    [] c = "l" -> 108
    [] c = "n" -> 110
    [] c = "o" -> 111
    [] c = "r" -> 114
    [] c = "s" -> 115
    [] c = "t" -> 116
    [] c = "x" -> 120
    [] OTHER -> 127

\* String.prototype.toLowerCase on one character.
LowerChar(c) ==
  CASE c = "A" -> "a"
    [] c = "B" -> "b"
    [] c = "E" -> "e"
    [] c = "L" -> "l"
    [] c = "P" -> "p"
    [] OTHER -> c

toLowerCase(s) == [i \in 1..Len(s) |-> LowerChar(s[i])]

\* SQLite's BINARY collation on TEXT: memcmp, the shorter string first on a tie.
TextLess(a, b) ==
  \E k \in 1..(Len(b)) :
     /\ \A i \in 1..(k - 1) : i <= Len(a) /\ a[i] = b[i]
     /\ \/ k = Len(a) + 1
        \/ k <= Len(a) /\ Ord(a[k]) < Ord(b[k])

TextLeq(a, b) == a = b \/ TextLess(a, b)

\* JavaScript truthiness of a request field: undefined and "" are falsy.
Truthy(v) == v # Undefined /\ v # <<>>

(* ---------------------------- validation ------------------------------ *)

\* /^[^\s@]+@[^\s@]+\.[^\s@]+$/ on the lower-cased string.
isValidEmail(email) ==
  LET s == toLowerCase(email)
      Plain(i, j) == \A k \in i..j : s[k] \notin Whitespace /\ s[k] # "@"
  IN  \E at \in 2..Len(s), dot \in 4..Len(s) :
         /\ s[at] = "@"
         /\ s[dot] = "."
         /\ at + 1 < dot
         /\ dot < Len(s)
         /\ Plain(1, at - 1)
         /\ Plain(at + 1, Len(s))

\* /^\d{4}-\d{2}-\d{2}$/
isValidDate(dateStr) ==
  /\ Len(dateStr) = 10
  /\ \A i \in 1..10 : IF i = 5 \/ i = 8 THEN dateStr[i] = "-"
                                      ELSE dateStr[i] \in Digits

Present == <<"P", "r", "e", "s", "e", "n", "t">>
Absent  == <<"A", "b", "s", "e", "n", "t">>

Statuses == {Present, Absent}

\* ['Present', 'Absent'].includes(status)
isValidStatus(status) == status \in Statuses

(* ------------------------------ inputs -------------------------------- *)

E1 == <<"E", "1">>
E2 == <<"E", "2">>
EmployeeIds == {E1, E2}

Ann == <<"A", "n", "n">>
Bob == <<"B", "o", "b">>
FullNames == {Ann, Bob}

EmailA == <<"a", "@", "x", ".", "i", "o">>
EmailB == <<"b", "@", "x", ".", "i", "o">>
BadEmail == <<"a", "@", "x">>
Emails == {EmailA, EmailB}

Eng == <<"E", "n", "g">>

DateA == <<"2", "0", "2", "3", "-", "1", "2", "-", "3", "1">>
DateB == <<"2", "0", "2", "4", "-", "0", "1", "-", "1", "0">>
DateC == <<"2", "0", "2", "4", "-", "0", "1", "-", "2", "0">>
BadDate == <<"2", "0", "2", "4", "-", "1", "-", "1", "0">>
Dates == {DateA, DateB, DateC}

Late == <<"L", "a", "t", "e">>

\* One body of POST /api/employees for each way its validation can fail.
InvalidEmployeeBodies ==
  {[employeeId |-> Undefined, fullName |-> Ann, email |-> EmailA, department |-> Eng],
   [employeeId |-> E1, fullName |-> <<>>, email |-> BadEmail, department |-> Eng],
   [employeeId |-> E1, fullName |-> Ann, email |-> EmailA, department |-> Undefined],
   [employeeId |-> E1, fullName |-> Ann, email |-> BadEmail, department |-> Eng]}

\* One body of POST /api/attendance for each way its validation can fail.
InvalidAttendanceBodies ==
  {[employeeId |-> Undefined, date |-> BadDate, status |-> Late],
   [employeeId |-> E1, date |-> BadDate, status |-> Late],
   [employeeId |-> E1, date |-> DateA, status |-> Late],
   [employeeId |-> E1, date |-> DateA, status |-> Undefined]}

\* req.body of POST /api/employees, for the ids I and the names N: every choice of id, name and
\* email, and the invalid bodies.
EmployeeBodies(I, N) ==
  {[employeeId |-> i, fullName |-> n, email |-> m, department |-> Eng] :
     i \in I, n \in N, m \in Emails}
  \cup InvalidEmployeeBodies

\* req.body of POST /api/attendance, for the ids I and the dates D: every choice of id, date
\* and valid status, and the invalid bodies.
AttendanceBodies(I, D) ==
  {[employeeId |-> i, date |-> d, status |-> st] :
     i \in I, d \in D, st \in Statuses}
  \cup InvalidAttendanceBodies

\* The values of a date filter that are no well-formed date.
NoStartDates == {BadDate, Undefined}
NoEndDates == {BadDate, Undefined, <<>>}

\* req.params and req.query of GET /api/employees/:employeeId/attendance, for
\* the ids I and the dates D: a filter is a date, malformed, absent or empty.
AttendanceQueries(I, D) ==
  {[employeeId |-> i, startDate |-> from, endDate |-> to] :
     i \in I,
     from \in D \cup NoStartDates,
     to \in D \cup NoEndDates}

(* ------------------------------- state -------------------------------- *)

VARIABLES
  employees,   \* table employees: a set of rows
  attendance,  \* table attendance: a set of rows
  seq,         \* sqlite_sequence of attendance (AUTOINCREMENT): last id given
  now,         \* the clock nowIso() reads
  reqs,        \* per slot: the handler invocation in flight, or Idle
  out,         \* the response sent by the last step, NoResponse if none
  audit,       \* the histories kept in this behaviour, among
               \*   "used", "cascaded", "prior", "dirty", "raced", "rival"
  usedIds,     \* history "used": employee ids of the successful Creates so far
  usedEmails,  \* history "used": emails of the successful Creates so far
  recorded,    \* history "used": <<employeeId, date>> of the successful
               \*   Records so far
  cascaded,    \* history "cascaded": the attendance rows an employee owned
               \*   when a Delete of that employee ran
  prior,       \* history "prior", per slot: was the key of the request in the
               \*   slot already used when the request was received?
  outPrior,    \* history "prior": `prior` of the request `out` answers
  dirty,       \* history "dirty", per slot: has a statement of another request
               \*   changed the store since the request in the slot was received?
  outDirty,    \* history "dirty": `dirty` of the request `out` answers
  raced,       \* history "raced": the write paths on which two requests for one
               \*   key have both awaited their write statement at one time
  rival,       \* history "rival", per slot: has a request with the key of the
               \*   request in the slot been answered 201 while this one was in
               \*   flight (won), and the employee_ids of the rows so inserted
               \*   that no Delete answered 200 has removed since (standing)
  outRival     \* history "rival": `rival` of the request `out` answers

vars == <<employees, attendance, seq, now, reqs, out, audit,
          usedIds, usedEmails, recorded, cascaded, prior, outPrior, dirty, outDirty,
          raced, rival, outRival>>

store == <<employees, attendance, seq>>

Idle == [kind |-> "idle", pc |-> "idle"]

NoResponse == [kind |-> "none", status |-> 0]

\* res.status(status).json(body) of the handler `kind` invoked with `req`.
Reply(kind, req, status, body) ==
  [kind |-> kind, req |-> req, status |-> status, body |-> body]

Error(msg) == [error |-> msg]
Message(msg) == [message |-> msg]

(* ------------------------------- store -------------------------------- *)

\* Mutant: the lower bound of the date filter is taken exclusive.
ConditionExclusive(a, clause, param) ==
  CASE clause = "employee_id = ?" -> a.employee_id = param
    [] clause = "date >= ?"       -> TextLess(param, a.date)
    [] clause = "date <= ?"       -> TextLeq(a.date, param)

\* Mutant: a schema without ON DELETE CASCADE, on a connection that does not
\* enforce foreign keys: the DELETE leaves the attendance rows.
NoCascade(employeeId) == attendance

\* A DELETE that removes the attendance records of every employee.
CascadeAll(employeeId) == {}

\* Mutant: the email lookup compares with another column and finds nothing.
EmployeeByEmailMiss(email) == {}

\* Mutant: the duplicate lookup of a Record finds nothing.
AttendanceByKeyMiss(employeeId, date) == {}

\* SELECT employee_id FROM employees WHERE employee_id = ?   (db.get: a row or none)
EmployeeById(employeeId) == {e \in employees : e.employee_id = employeeId}

\* SELECT email FROM employees WHERE email = ?
EmployeeByEmail(email) == {e \in employees : e.email = email}

\* SELECT id FROM attendance WHERE employee_id = ? AND date = ?
AttendanceByKey(employeeId, date) ==
  {a \in attendance : a.employee_id = employeeId /\ a.date = date}

\* Mutant: a schema in which email is not declared UNIQUE.
EmployeeEmailNotUnique(row) == TRUE

\* Mutant: a schema without UNIQUE(employee_id, date).
AttendanceNotUnique(row) == TRUE

\* Mutant: a connection on which PRAGMA foreign_keys = ON was not run.
AttendanceForeignKeyOff(row) == TRUE

\* A table employees whose employee_id is no key.
EmployeePrimaryKeyOff(row) == TRUE

\* employees: employee_id TEXT PRIMARY KEY
EmployeePrimaryKeyOk(row) == \A e \in employees : e.employee_id # row.employee_id

\* employees: email TEXT NOT NULL UNIQUE
EmployeeEmailUniqueOk(row) ==
  \A e \in employees : e.email # row.email

\* attendance: UNIQUE(employee_id, date)
AttendanceUniqueOk(row) ==
  \A a \in attendance : ~(a.employee_id = row.employee_id /\ a.date = row.date)

\* attendance: FOREIGN KEY (employee_id) REFERENCES employees(employee_id),
\* enforced because initDb runs PRAGMA foreign_keys = ON on the one connection.
AttendanceForeignKeyOk(row) == \E e \in employees : e.employee_id = row.employee_id

\* attendance: id INTEGER PRIMARY KEY AUTOINCREMENT
NextAttendanceId == seq + 1

\* ON DELETE CASCADE: the attendance rows that survive DELETE FROM employees
\* WHERE employee_id = ?
AfterCascade(employeeId) == {a \in attendance : a.employee_id # employeeId}

(* ----------------------------- histories ------------------------------ *)

\* The write statements that a lookup of the same handler precedes, by the key
\* the lookup tests.
WritePaths == {"employeeId", "email", "attendance", "delete"}

\* Does the invocation r await the write statement of the write path p?
AtWrite(r, p) ==
  CASE p = "employeeId" -> r.kind = "create" /\ r.pc = "insert"
    [] p = "email"      -> r.kind = "create" /\ r.pc = "insert"
    [] p = "attendance" -> r.kind = "record" /\ r.pc = "insert"
    [] p = "delete"     -> r.kind = "delete" /\ r.pc = "delete"

\* Do the requests a and b of the write path p target one key?
SameTarget(p, a, b) ==
  CASE p = "employeeId" -> a.employeeId = b.employeeId
    [] p = "email"      -> a.email = b.email
    [] p = "attendance" -> a.employeeId = b.employeeId /\ a.date = b.date
    [] p = "delete"     -> a.employeeId = b.employeeId

\* The write paths on which, with the invocations r in flight, two requests for
\* one key both await their write statement.
Racing(r) ==
  {p \in WritePaths :
     \E s \in Slots : \E t \in Slots \ {s} :
       /\ AtWrite(r[s], p) /\ AtWrite(r[t], p)
       /\ SameTarget(p, r[s].req, r[t].req)}

\* Do the requests a and b of handler `kind` carry one key: for a Create, the
\* same employeeId or the same email; for a Record, the same (employeeId, date)?
SameKeyRequest(kind, a, b) ==
  CASE kind = "create" -> a.employeeId = b.employeeId \/ a.email = b.email
    [] kind = "record" -> a.employeeId = b.employeeId /\ a.date = b.date
    [] OTHER -> FALSE

\* The positions of a writing handler at which it awaits a lookup.
LookupSteps == {"byId", "byEmail", "lookup", "employee", "existing"}

\* The positions of a writing handler at which it awaits its write statement.
WriteSteps == {"insert", "delete"}

NoRival == [won |-> FALSE, standing |-> {}]

\* Is the key of the request `req` of handler `kind` already used: for a Create,
\* by an earlier successful Create; for a Record, by an earlier successful Record?
KeyUsed(kind, req) ==
  CASE kind = "create" -> req.employeeId \in usedIds \/ req.email \in usedEmails
    [] kind = "record" -> <<req.employeeId, req.date>> \in recorded
    [] OTHER -> FALSE

(* ------------------------------ Init ---------------------------------- *)

InitServer ==
  /\ employees = {}
  /\ attendance = {}
  /\ seq = 0
  /\ now = 0
  /\ reqs = [s \in Slots |-> Idle]
  /\ out = NoResponse
  /\ usedIds = {}
  /\ usedEmails = {}
  /\ recorded = {}
  /\ cascaded = {}
  /\ prior = [s \in Slots |-> FALSE]
  /\ outPrior = FALSE
  /\ dirty = [s \in Slots |-> FALSE]
  /\ outDirty = FALSE
  /\ raced = {}
  /\ rival = [s \in Slots |-> NoRival]
  /\ outRival = NoRival

Init == InitServer /\ audit = {}

\* The clock advances between any two steps.
Tick ==
  /\ now < MaxClock
  /\ now' = now + 1
  /\ out' = NoResponse
  /\ outPrior' = FALSE
  /\ outDirty' = FALSE
  /\ outRival' = NoRival
  /\ UNCHANGED <<store, reqs, audit, usedIds, usedEmails, recorded, cascaded,
                 prior, dirty, raced, rival>>

\* The step of slot s sends `response` and ends the invocation; `wrote` tells
\* whether its statement changed a table.
Respond(s, response, wrote) ==
  /\ out' = response
  /\ reqs' = [reqs EXCEPT ![s] = Idle]
  /\ audit' = audit
  /\ usedIds' = IF "used" \in audit /\ response.kind = "create" /\ response.status = 201
                THEN usedIds \cup {response.req.employeeId} ELSE usedIds
  /\ usedEmails' = IF "used" \in audit /\ response.kind = "create"
                      /\ response.status = 201
                   THEN usedEmails \cup {response.req.email} ELSE usedEmails
  /\ recorded' = IF "used" \in audit /\ response.kind = "record"
                    /\ response.status = 201
                 THEN recorded \cup {<<response.req.employeeId, response.req.date>>}
                 ELSE recorded
  /\ cascaded' = IF "cascaded" \in audit /\ response.kind = "delete"
                    /\ response.status = 200
                 THEN cascaded \cup
                        {a \in attendance : a.employee_id = response.req.employeeId}
                 ELSE cascaded
  /\ outPrior' = IF "prior" \in audit
                 THEN IF reqs[s].kind = "idle"
                      THEN KeyUsed(response.kind, response.req) ELSE prior[s]
                 ELSE FALSE
  /\ prior' = [prior EXCEPT ![s] = FALSE]
  /\ outDirty' = dirty[s]
  /\ dirty' = [t \in Slots |->
                 IF t = s THEN FALSE
                 ELSE dirty[t] \/ ("dirty" \in audit /\ wrote /\ reqs[t].kind # "idle")]
  /\ raced' = raced
  /\ outRival' = rival[s]
  /\ rival' = [t \in Slots |->
                 IF t = s THEN NoRival
                 ELSE IF "rival" \notin audit \/ reqs[t].kind = "idle" THEN rival[t]
                 ELSE IF /\ response.status = 201 /\ reqs[t].kind = response.kind
                         /\ SameKeyRequest(response.kind, reqs[t].req, response.req)
                 THEN [won |-> TRUE,
                       standing |-> rival[t].standing \cup {response.req.employeeId}]
                 ELSE IF response.kind = "delete" /\ response.status = 200
                 THEN [won |-> rival[t].won,
                       standing |-> rival[t].standing \ {response.req.employeeId}]
                 ELSE rival[t]]

\* The step of slot s sends nothing and leaves the invocation at `next`.
Continue(s, next) ==
  /\ out' = NoResponse
  /\ reqs' = [reqs EXCEPT ![s] = next]
  /\ audit' = audit
  /\ prior' = IF "prior" \in audit /\ reqs[s].kind = "idle"
              THEN [prior EXCEPT ![s] = KeyUsed(next.kind, next.req)] ELSE prior
  /\ outPrior' = FALSE
  /\ outDirty' = FALSE
  /\ raced' = IF "raced" \in audit
              THEN raced \cup Racing([reqs EXCEPT ![s] = next]) ELSE raced
  /\ outRival' = NoRival
  /\ UNCHANGED <<usedIds, usedEmails, recorded, cascaded, dirty, rival>>

(* ------------------------- the catch blocks --------------------------- *)

\* A handler whose every catch block forwards to the error middleware.
CatchAllMessage(kind) == "Unexpected server error."

\* The message of the catch block of the handler `kind`.
FailureMessage(kind) ==
  CASE kind = "list"    -> "Failed to load employees."
    [] kind = "summary" -> "Failed to load summary."
    [] kind = "create"  -> "Failed to create employee."
    [] kind = "delete"  -> "Failed to delete employee."
    [] kind = "record"  -> "Failed to record attendance."
    [] kind = "query"   -> "Failed to load attendance."

\* The body the error middleware of lines 257-259 sends.
UnexpectedServerError == Error("Unexpected server error.")

\* A store whose rejected statement has emptied the attendance table.
FailAfterWrite(s) ==
  /\ reqs[s].kind # "idle"
  /\ Respond(s, Reply(reqs[s].kind, reqs[s].req, 500,
                       Error(FailureMessage(reqs[s].kind))), FALSE)
  /\ attendance' = {}
  /\ UNCHANGED <<employees, seq, now>>

\* The statement the invocation in slot s awaits is rejected by the store (the
\* promise of run / get / all rejects): the statement changes nothing, the catch
\* block of the handler answers 500 and the invocation ends.
Fail(s) ==
  /\ reqs[s].kind # "idle"
  /\ Respond(s, Reply(reqs[s].kind, reqs[s].req, 500,
                       Error(FailureMessage(reqs[s].kind))), FALSE)
  /\ UNCHANGED <<store, now>>

(* ------------------------ POST /api/employees ------------------------- *)

\* Lines 124-136: the body is destructured and validated; the first lookup is issued.
CreateEmployee(s, bodies) ==
  /\ reqs[s].kind = "idle"
  /\ \E body \in bodies :
       LET req == body IN
       IF ~Truthy(body.employeeId) \/ ~Truthy(body.fullName)
            \/ ~Truthy(body.email) \/ ~Truthy(body.department)
       THEN Respond(s, Reply("create", req, 400, Error("All fields are required.")),
                    FALSE)
       ELSE IF ~isValidEmail(body.email)
       THEN Respond(s, Reply("create", req, 400, Error("Email format is invalid.")),
                    FALSE)
       ELSE Continue(s, [kind |-> "create", pc |-> "byId", req |-> req])
  /\ UNCHANGED <<store, now>>

\* A handler whose first lookup is the email lookup.
CreateByIdEmailFirst(s) ==
  /\ reqs[s].kind = "create" /\ reqs[s].pc = "byId"
  /\ LET req == reqs[s].req IN
     IF EmployeeByEmail(req.email) # {}
     THEN Respond(s, Reply("create", req, 409, Error("Email already exists.")),
                  FALSE)
     ELSE Continue(s, [reqs[s] EXCEPT !.pc = "byEmail"])
  /\ UNCHANGED <<store, now>>

\* Lines 136-141: the employee_id lookup runs; 409 or the email lookup is issued.
CreateById(s) ==
  /\ reqs[s].kind = "create" /\ reqs[s].pc = "byId"
  /\ LET req == reqs[s].req IN
     IF EmployeeById(req.employeeId) # {}
     THEN Respond(s, Reply("create", req, 409, Error("Employee ID already exists.")),
                  FALSE)
     ELSE Continue(s, [reqs[s] EXCEPT !.pc = "byEmail"])
  /\ UNCHANGED <<store, now>>

\* A handler whose email lookup and INSERT are one statement.
CreateByEmailThenInsert(s) ==
  /\ reqs[s].kind = "create" /\ reqs[s].pc = "byEmail"
  /\ LET req == reqs[s].req IN
     IF EmployeeByEmail(req.email) # {} \/ EmployeeById(req.employeeId) # {}
     THEN /\ UNCHANGED employees
          /\ Respond(s, Reply("create", req, 409, Error("Email already exists.")),
                     FALSE)
     ELSE /\ employees' = employees \cup {[employee_id |-> req.employeeId,
                                           full_name   |-> req.fullName,
                                           email       |-> req.email,
                                           department  |-> req.department,
                                           created_at  |-> now]}
          /\ Respond(s, Reply("create", req, 201, Message("Employee created.")), TRUE)
  /\ UNCHANGED <<attendance, seq, now>>

\* Lines 141-149: the email lookup runs; 409 or the INSERT is issued, with nowIso().
CreateByEmail(s) ==
  /\ reqs[s].kind = "create" /\ reqs[s].pc = "byEmail"
  /\ LET req == reqs[s].req IN
     IF EmployeeByEmail(req.email) # {}
     THEN Respond(s, Reply("create", req, 409, Error("Email already exists.")),
                  FALSE)
     ELSE Continue(s, [kind |-> "create", pc |-> "insert", req |-> req,
                       created_at |-> now])
  /\ UNCHANGED <<store, now>>

\* A row whose name and department are taken from each other's parameter.
EmployeeRowCrossed(body, created_at) ==
  [employee_id |-> body.employeeId,
   full_name   |-> body.department,
   email       |-> body.email,
   department  |-> body.fullName,
   created_at  |-> created_at]

\* The row of INSERT INTO employees (...) VALUES (?, ?, ?, ?, ?)
EmployeeRow(body, created_at) ==
  [employee_id |-> body.employeeId,
   full_name   |-> body.fullName,
   email       |-> body.email,
   department  |-> body.department,
   created_at  |-> created_at]

\* Lines 146-154: the INSERT runs; 201, or the constraint error is caught: 500.
CreateInsert(s) ==
  /\ reqs[s].kind = "create" /\ reqs[s].pc = "insert"
  /\ LET req == reqs[s].req
         row == EmployeeRow(req, reqs[s].created_at)
     IN
     IF EmployeePrimaryKeyOk(row) /\ EmployeeEmailUniqueOk(row)
     THEN /\ employees' = employees \cup {row}
          /\ Respond(s, Reply("create", req, 201, Message("Employee created.")), TRUE)
     ELSE /\ UNCHANGED employees
          /\ Respond(s, Reply("create", req, 500, Error("Failed to create employee.")),
                     FALSE)
  /\ UNCHANGED <<attendance, seq, now>>

(* ------------------ DELETE /api/employees/:employeeId ------------------ *)

\* Lines 157-160: the route parameter is read; the lookup is issued.
DeleteEmployee(s, ids) ==
  /\ reqs[s].kind = "idle"
  /\ \E employeeId \in ids :
       Continue(s, [kind |-> "delete", pc |-> "lookup",
                    req |-> [employeeId |-> employeeId]])
  /\ UNCHANGED <<store, now>>

\* Lines 160-165: the lookup runs; 404 or the DELETE is issued.
DeleteLookup(s) ==
  /\ reqs[s].kind = "delete" /\ reqs[s].pc = "lookup"
  /\ LET req == reqs[s].req IN
     IF EmployeeById(req.employeeId) = {}
     THEN Respond(s, Reply("delete", req, 404, Error("Employee not found.")), FALSE)
     ELSE Continue(s, [reqs[s] EXCEPT !.pc = "delete"])
  /\ UNCHANGED <<store, now>>

\* Lines 165-166: the DELETE runs, with the cascade of the schema; 200.
DeleteRun(s) ==
  /\ reqs[s].kind = "delete" /\ reqs[s].pc = "delete"
  /\ LET req == reqs[s].req IN
     /\ employees' = {e \in employees : e.employee_id # req.employeeId}
     /\ attendance' = AfterCascade(req.employeeId)
     /\ Respond(s, Reply("delete", req, 200, Message("Employee deleted.")),
                 EmployeeById(req.employeeId) # {})
  /\ UNCHANGED <<seq, now>>

(* ------------------------ POST /api/attendance ------------------------ *)

\* A validation that tests the status before the format of the date.
RecordAttendanceStatusFirst(s, bodies) ==
  /\ reqs[s].kind = "idle"
  /\ \E body \in bodies :
       LET req == body IN
       IF ~Truthy(body.employeeId) \/ ~Truthy(body.date) \/ ~Truthy(body.status)
       THEN Respond(s, Reply("record", req, 400,
                             Error("Employee ID, date, and status are required.")), FALSE)
       ELSE IF ~isValidStatus(body.status)
       THEN Respond(s, Reply("record", req, 400,
                             Error("Status must be Present or Absent.")), FALSE)
       ELSE IF ~isValidDate(body.date)
       THEN Respond(s, Reply("record", req, 400,
                             Error("Date must be in YYYY-MM-DD format.")), FALSE)
       ELSE Continue(s, [kind |-> "record", pc |-> "employee", req |-> req])
  /\ UNCHANGED <<store, now>>

\* Lines 172-188: the body is destructured and validated; the employee lookup is issued.
RecordAttendance(s, bodies) ==
  /\ reqs[s].kind = "idle"
  /\ \E body \in bodies :
       LET req == body IN
       IF ~Truthy(body.employeeId) \/ ~Truthy(body.date) \/ ~Truthy(body.status)
       THEN Respond(s, Reply("record", req, 400,
                             Error("Employee ID, date, and status are required.")), FALSE)
       ELSE IF ~isValidDate(body.date)
       THEN Respond(s, Reply("record", req, 400,
                             Error("Date must be in YYYY-MM-DD format.")), FALSE)
       ELSE IF ~isValidStatus(body.status)
       THEN Respond(s, Reply("record", req, 400,
                             Error("Status must be Present or Absent.")), FALSE)
       ELSE Continue(s, [kind |-> "record", pc |-> "employee", req |-> req])
  /\ UNCHANGED <<store, now>>

\* Lines 188-193: the employee lookup runs; 404 or the duplicate lookup is issued.
RecordEmployee(s) ==
  /\ reqs[s].kind = "record" /\ reqs[s].pc = "employee"
  /\ LET req == reqs[s].req IN
     IF EmployeeById(req.employeeId) = {}
     THEN Respond(s, Reply("record", req, 404, Error("Employee not found.")), FALSE)
     ELSE Continue(s, [reqs[s] EXCEPT !.pc = "existing"])
  /\ UNCHANGED <<store, now>>

\* Lines 193-204: the duplicate lookup runs; 409 or the INSERT is issued, with nowIso().
RecordExisting(s) ==
  /\ reqs[s].kind = "record" /\ reqs[s].pc = "existing"
  /\ LET req == reqs[s].req IN
     IF AttendanceByKey(req.employeeId, req.date) # {}
     THEN Respond(s, Reply("record", req, 409,
                           Error("Attendance already recorded for this date.")), FALSE)
     ELSE Continue(s, [kind |-> "record", pc |-> "insert", req |-> req,
                       created_at |-> now])
  /\ UNCHANGED <<store, now>>

\* The row of INSERT INTO attendance (employee_id, date, status, created_at)
AttendanceRow(body, created_at) ==
  [id          |-> NextAttendanceId,
   employee_id |-> body.employeeId,
   date        |-> body.date,
   status      |-> body.status,
   created_at  |-> created_at]

\* Lines 201-209: the INSERT runs; 201, or the constraint error is caught: 500.
RecordInsert(s) ==
  /\ reqs[s].kind = "record" /\ reqs[s].pc = "insert"
  /\ LET req == reqs[s].req
         row == AttendanceRow(req, reqs[s].created_at)
     IN
     IF AttendanceUniqueOk(row) /\ AttendanceForeignKeyOk(row)
     THEN /\ seq < MaxSeq
          /\ attendance' = attendance \cup {row}
          /\ seq' = row.id
          /\ Respond(s, Reply("record", req, 201, Message("Attendance recorded.")), TRUE)
     ELSE /\ UNCHANGED <<attendance, seq>>
          /\ Respond(s, Reply("record", req, 500, Error("Failed to record attendance.")),
                     FALSE)
  /\ UNCHANGED <<employees, now>>

(* -------------------------- result ordering --------------------------- *)

\* ORDER BY created_at DESC (ISO-8601 UTC strings of one width: time order)
CreatedAtDesc(a, b) == a.created_at > b.created_at

\* ORDER BY date DESC
DateDesc(a, b) == TextLess(b.date, a.date)

\* An order that breaks the ties of present_days by full_name descending.
PresentDaysDescNameDesc(a, b) ==
  \/ a.present_days > b.present_days
  \/ a.present_days = b.present_days /\ TextLess(b.full_name, a.full_name)

\* ORDER BY present_days DESC, e.full_name ASC
PresentDaysDescNameAsc(a, b) ==
  \/ a.present_days > b.present_days
  \/ a.present_days = b.present_days /\ TextLess(a.full_name, b.full_name)

\* Does row a come before row b in every result of ORDER BY `order`?
Precedes(order, a, b) ==
  CASE order = "created_at DESC" -> CreatedAtDesc(a, b)
    [] order = "date DESC" -> DateDesc(a, b)
    [] order = "present_days DESC, e.full_name ASC" -> PresentDaysDescNameAsc(a, b)

\* The results of a SELECT ... ORDER BY `order` over the rows S: every listing of
\* S in which no row comes after a row it must precede (rows that tie come in
\* any order).
OrderBy(S, order) ==
  {r \in [1..Cardinality(S) -> S] :
     /\ \A i, j \in 1..Cardinality(S) : i # j => r[i] # r[j]
     /\ \A i, j \in 1..Cardinality(S) : i < j => ~Precedes(order, r[j], r[i])}

(* ------------------------- GET /api/employees ------------------------- *)

\* Lines 81-83: the SELECT is issued.
ListEmployees(s) ==
  /\ reqs[s].kind = "idle"
  /\ Continue(s, [kind |-> "list", pc |-> "all", req |-> <<>>])
  /\ UNCHANGED <<store, now>>

\* Lines 83-86: the SELECT runs; 200 with the rows.
ListAll(s) ==
  /\ reqs[s].kind = "list" /\ reqs[s].pc = "all"
  /\ \E rows \in OrderBy(employees, "created_at DESC") :
       Respond(s, Reply("list", reqs[s].req, 200, [employees |-> rows]), FALSE)
  /\ UNCHANGED <<store, now>>

(* --------------- GET /api/employees/:employeeId/attendance ------------- *)

\* One condition of the WHERE clause, on row a, with its bound parameter.
Condition(a, clause, param) ==
  CASE clause = "employee_id = ?" -> a.employee_id = param
    [] clause = "date >= ?"       -> TextLeq(param, a.date)
    [] clause = "date <= ?"       -> TextLeq(a.date, param)

\* WHERE ${where.join(' AND ')} with params
Where(a, where, params) ==
  \A i \in DOMAIN where : Condition(a, where[i], params[i])

\* Lines 212-216: the parameters are read; the employee lookup is issued.
QueryAttendance(s, queries) ==
  /\ reqs[s].kind = "idle"
  /\ \E req \in queries :
       Continue(s, [kind |-> "query", pc |-> "employee", req |-> req])
  /\ UNCHANGED <<store, now>>

\* A handler that validates the date filters before it looks at the result of
\* the employee lookup.
QueryEmployeeFiltersFirst(s) ==
  /\ reqs[s].kind = "query" /\ reqs[s].pc = "employee"
  /\ LET req == reqs[s].req
         where1  == <<"employee_id = ?">>
         params1 == <<req.employeeId>>
         where2  == IF Truthy(req.startDate) THEN Append(where1, "date >= ?") ELSE where1
         params2 == IF Truthy(req.startDate) THEN Append(params1, req.startDate)
                                             ELSE params1
         where3  == IF Truthy(req.endDate) THEN Append(where2, "date <= ?") ELSE where2
         params3 == IF Truthy(req.endDate) THEN Append(params2, req.endDate)
                                           ELSE params2
     IN
     IF Truthy(req.startDate) /\ ~isValidDate(req.startDate)
     THEN Respond(s, Reply("query", req, 400,
                           Error("Start date must be in YYYY-MM-DD format.")), FALSE)
     ELSE IF Truthy(req.endDate) /\ ~isValidDate(req.endDate)
     THEN Respond(s, Reply("query", req, 400,
                           Error("End date must be in YYYY-MM-DD format.")), FALSE)
     ELSE IF EmployeeById(req.employeeId) = {}
     THEN Respond(s, Reply("query", req, 404, Error("Employee not found.")), FALSE)
     ELSE Continue(s, [kind |-> "query", pc |-> "records", req |-> req,
                       where |-> where3, params |-> params3])
  /\ UNCHANGED <<store, now>>

\* Lines 216-245: the lookup runs; 404, or the filters are validated (400) and
\* the SELECT is issued with the WHERE clause built from them.
QueryEmployee(s) ==
  /\ reqs[s].kind = "query" /\ reqs[s].pc = "employee"
  /\ LET req == reqs[s].req
         where1  == <<"employee_id = ?">>
         params1 == <<req.employeeId>>
         where2  == IF Truthy(req.startDate) THEN Append(where1, "date >= ?") ELSE where1
         params2 == IF Truthy(req.startDate) THEN Append(params1, req.startDate)
                                             ELSE params1
         where3  == IF Truthy(req.endDate) THEN Append(where2, "date <= ?") ELSE where2
         params3 == IF Truthy(req.endDate) THEN Append(params2, req.endDate)
                                           ELSE params2
     IN
     IF EmployeeById(req.employeeId) = {}
     THEN Respond(s, Reply("query", req, 404, Error("Employee not found.")), FALSE)
     ELSE IF Truthy(req.startDate) /\ ~isValidDate(req.startDate)
     THEN Respond(s, Reply("query", req, 400,
                           Error("Start date must be in YYYY-MM-DD format.")), FALSE)
     ELSE IF Truthy(req.endDate) /\ ~isValidDate(req.endDate)
     THEN Respond(s, Reply("query", req, 400,
                           Error("End date must be in YYYY-MM-DD format.")), FALSE)
     ELSE Continue(s, [kind |-> "query", pc |-> "records", req |-> req,
                       where |-> where3, params |-> params3])
  /\ UNCHANGED <<store, now>>

\* Lines 240-247: the SELECT runs; 200 with the rows.
QueryRecords(s) ==
  /\ reqs[s].kind = "query" /\ reqs[s].pc = "records"
  /\ \E rows \in OrderBy({a \in attendance : Where(a, reqs[s].where, reqs[s].params)},
                         "date DESC") :
       Respond(s, Reply("query", reqs[s].req, 200, [records |-> rows]), FALSE)
  /\ UNCHANGED <<store, now>>

(* -------------------------- GET /api/summary -------------------------- *)

\* SELECT COUNT(*) AS total FROM employees
CountEmployees == Cardinality(employees)

\* SELECT COUNT(*) AS total FROM attendance
CountAttendance == Cardinality(attendance)

\* SELECT COUNT(*) AS total FROM attendance WHERE status = 'Present'
CountPresent == Cardinality({a \in attendance : a.status = Present})

\* SELECT e.employee_id, e.full_name, COUNT(a.id) AS present_days
\* FROM employees e LEFT JOIN attendance a
\*   ON e.employee_id = a.employee_id AND a.status = 'Present'
\* GROUP BY e.employee_id
PerEmployee ==
  {[employee_id  |-> id,
    full_name    |-> (CHOOSE e \in employees : e.employee_id = id).full_name,
    present_days |-> Cardinality({<<e, a>> \in employees \X attendance :
                                    /\ e.employee_id = id
                                    /\ a.employee_id = id
                                    /\ a.status = Present})]
   : id \in {e.employee_id : e \in employees}}

\* Lines 92-94: the first count is issued.
GetSummary(s) ==
  /\ reqs[s].kind = "idle"
  /\ Continue(s, [kind |-> "summary", pc |-> "employees", req |-> <<>>])
  /\ UNCHANGED <<store, now>>

\* Line 94: the count of employees runs.
SummaryEmployees(s) ==
  /\ reqs[s].kind = "summary" /\ reqs[s].pc = "employees"
  /\ Continue(s, [kind |-> "summary", pc |-> "attendance", req |-> <<>>,
                  employeesRow |-> CountEmployees])
  /\ UNCHANGED <<store, now>>

\* Line 95: the count of attendance rows runs.
SummaryAttendance(s) ==
  /\ reqs[s].kind = "summary" /\ reqs[s].pc = "attendance"
  /\ Continue(s, [kind |-> "summary", pc |-> "present", req |-> <<>>,
                  employeesRow |-> reqs[s].employeesRow,
                  attendanceRow |-> CountAttendance])
  /\ UNCHANGED <<store, now>>

\* Lines 96-98: the count of Present rows runs.
SummaryPresent(s) ==
  /\ reqs[s].kind = "summary" /\ reqs[s].pc = "present"
  /\ Continue(s, [kind |-> "summary", pc |-> "perEmployee", req |-> <<>>,
                  employeesRow |-> reqs[s].employeesRow,
                  attendanceRow |-> reqs[s].attendanceRow,
                  presentRow |-> CountPresent])
  /\ UNCHANGED <<store, now>>

\* Lines 100-118: the join runs; 200 with the three totals and its rows.
SummaryPerEmployee(s) ==
  /\ reqs[s].kind = "summary" /\ reqs[s].pc = "perEmployee"
  /\ \E rows \in OrderBy(PerEmployee, "present_days DESC, e.full_name ASC") :
       Respond(s, Reply("summary", reqs[s].req, 200,
                        [totals |-> [employees  |-> reqs[s].employeesRow,
                                     attendance |-> reqs[s].attendanceRow,
                                     present    |-> reqs[s].presentRow],
                         presentByEmployee |-> rows]), FALSE)
  /\ UNCHANGED <<store, now>>

(* ------------------ the inputs of the specifications ------------------- *)

OneEmployeeId == {E1}
OneName == {Ann}
OneDay == {DateA}
TwoDays == {DateA, DateB}
TwoDaysApart == {DateA, DateC}
NoDay == {}

BodiesOfAnn == EmployeeBodies(EmployeeIds, OneName)
BodiesOfAnnAndBob == EmployeeBodies(EmployeeIds, FullNames)
BodiesOfOneEmployee == EmployeeBodies(OneEmployeeId, OneName)

BodiesOfOneDay == AttendanceBodies(EmployeeIds, OneDay)
BodiesOfTwoDays == AttendanceBodies(EmployeeIds, TwoDays)
BodiesOfTwoDaysApart == AttendanceBodies(EmployeeIds, TwoDaysApart)
BodiesOfTwoDaysOfOneEmployee == AttendanceBodies(OneEmployeeId, TwoDays)

BodiesOfOneDayOfOneEmployee == AttendanceBodies(OneEmployeeId, OneDay)

QueriesWithDates == AttendanceQueries(OneEmployeeId, Dates)
QueriesWithoutDates == AttendanceQueries(EmployeeIds, NoDay)
QueriesOfOneEmployee == AttendanceQueries(OneEmployeeId, NoDay)

(* --------------------------- specifications --------------------------- *)

\* The three writing handlers, invoked by concurrent clients.
Next ==
  \/ \E s \in Slots : CreateEmployee(s, BodiesOfAnn)
  \/ \E s \in Slots : CreateById(s)
  \/ \E s \in Slots : CreateByEmail(s)
  \/ \E s \in Slots : CreateInsert(s)
  \/ \E s \in Slots : DeleteEmployee(s, EmployeeIds)
  \/ \E s \in Slots : DeleteLookup(s)
  \/ \E s \in Slots : DeleteRun(s)
  \/ \E s \in Slots : RecordAttendance(s, BodiesOfTwoDays)
  \/ \E s \in Slots : RecordEmployee(s)
  \/ \E s \in Slots : RecordExisting(s)
  \/ \E s \in Slots : RecordInsert(s)

Spec == Init /\ [][Next]_vars

\* Creates and Deletes of concurrent clients, with the histories kept.
NextEmployees ==
  \/ \E s \in Slots : CreateEmployee(s, BodiesOfAnnAndBob)
  \/ \E s \in Slots : CreateById(s)
  \/ \E s \in Slots : CreateByEmail(s)
  \/ \E s \in Slots : CreateInsert(s)
  \/ \E s \in Slots : DeleteEmployee(s, EmployeeIds)
  \/ \E s \in Slots : DeleteLookup(s)
  \/ \E s \in Slots : DeleteRun(s)

InitEmployees == InitServer /\ audit = {"used", "prior"}

SpecEmployees == InitEmployees /\ [][NextEmployees]_vars

\* The writing handlers on one employee, with the histories kept.
NextRecords ==
  \/ \E s \in Slots : CreateEmployee(s, BodiesOfOneEmployee)
  \/ \E s \in Slots : CreateById(s)
  \/ \E s \in Slots : CreateByEmail(s)
  \/ \E s \in Slots : CreateInsert(s)
  \/ \E s \in Slots : DeleteEmployee(s, OneEmployeeId)
  \/ \E s \in Slots : DeleteLookup(s)
  \/ \E s \in Slots : DeleteRun(s)
  \/ \E s \in Slots : RecordAttendance(s, BodiesOfTwoDaysOfOneEmployee)
  \/ \E s \in Slots : RecordEmployee(s)
  \/ \E s \in Slots : RecordExisting(s)
  \/ \E s \in Slots : RecordInsert(s)

InitRecords == InitServer /\ audit = {"used", "prior"}

SpecRecords == InitRecords /\ [][NextRecords]_vars

\* A client that queries attendance while other clients write.
NextQuery ==
  \/ \E s \in Writers : CreateEmployee(s, BodiesOfAnn)
  \/ \E s \in Writers : CreateById(s)
  \/ \E s \in Writers : CreateByEmail(s)
  \/ \E s \in Writers : CreateInsert(s)
  \/ \E s \in Writers : DeleteEmployee(s, EmployeeIds)
  \/ \E s \in Writers : DeleteLookup(s)
  \/ \E s \in Writers : DeleteRun(s)
  \/ \E s \in Writers : RecordAttendance(s, BodiesOfTwoDaysApart)
  \/ \E s \in Writers : RecordEmployee(s)
  \/ \E s \in Writers : RecordExisting(s)
  \/ \E s \in Writers : RecordInsert(s)
  \/ \E s \in Readers : QueryAttendance(s, QueriesWithDates)
  \/ \E s \in Readers : QueryEmployee(s)
  \/ \E s \in Readers : QueryRecords(s)

SpecQuery == Init /\ [][NextQuery]_vars

\* A client that lists employees and queries attendance while other clients
\* write, with the history of the cascades kept.
NextDelete ==
  \/ \E s \in Writers : CreateEmployee(s, BodiesOfAnn)
  \/ \E s \in Writers : CreateById(s)
  \/ \E s \in Writers : CreateByEmail(s)
  \/ \E s \in Writers : CreateInsert(s)
  \/ \E s \in Writers : DeleteEmployee(s, EmployeeIds)
  \/ \E s \in Writers : DeleteLookup(s)
  \/ \E s \in Writers : DeleteRun(s)
  \/ \E s \in Writers : RecordAttendance(s, BodiesOfOneDay)
  \/ \E s \in Writers : RecordEmployee(s)
  \/ \E s \in Writers : RecordExisting(s)
  \/ \E s \in Writers : RecordInsert(s)
  \/ \E s \in Readers : ListEmployees(s)
  \/ \E s \in Readers : ListAll(s)
  \/ \E s \in Readers : QueryAttendance(s, QueriesWithoutDates)
  \/ \E s \in Readers : QueryEmployee(s)
  \/ \E s \in Readers : QueryRecords(s)

InitDelete == InitServer /\ audit = {"cascaded"}

SpecDelete == InitDelete /\ [][NextDelete]_vars

\* A client that asks for the summary while other clients write, with the
\* history of the writes during a request kept.
NextSummary ==
  \/ \E s \in Writers : CreateEmployee(s, BodiesOfAnnAndBob)
  \/ \E s \in Writers : CreateById(s)
  \/ \E s \in Writers : CreateByEmail(s)
  \/ \E s \in Writers : CreateInsert(s)
  \/ \E s \in Writers : DeleteEmployee(s, EmployeeIds)
  \/ \E s \in Writers : DeleteLookup(s)
  \/ \E s \in Writers : DeleteRun(s)
  \/ \E s \in Writers : RecordAttendance(s, BodiesOfTwoDays)
  \/ \E s \in Writers : RecordEmployee(s)
  \/ \E s \in Writers : RecordExisting(s)
  \/ \E s \in Writers : RecordInsert(s)
  \/ \E s \in Readers : GetSummary(s)
  \/ \E s \in Readers : SummaryEmployees(s)
  \/ \E s \in Readers : SummaryAttendance(s)
  \/ \E s \in Readers : SummaryPresent(s)
  \/ \E s \in Readers : SummaryPerEmployee(s)

InitSummary == InitServer /\ audit = {"dirty"}

SpecSummary == InitSummary /\ [][NextSummary]_vars

\* Clients that create, delete and list employees while the clock advances.
NextList ==
  \/ Tick
  \/ \E s \in Slots : CreateEmployee(s, BodiesOfAnnAndBob)
  \/ \E s \in Slots : CreateById(s)
  \/ \E s \in Slots : CreateByEmail(s)
  \/ \E s \in Slots : CreateInsert(s)
  \/ \E s \in Slots : DeleteEmployee(s, EmployeeIds)
  \/ \E s \in Slots : DeleteLookup(s)
  \/ \E s \in Slots : DeleteRun(s)
  \/ \E s \in Slots : ListEmployees(s)
  \/ \E s \in Slots : ListAll(s)

SpecList == Init /\ [][NextList]_vars

\* The three writing handlers, invoked by concurrent clients, with the history
\* of the races kept.
NextRaces ==
  \/ \E s \in Slots : CreateEmployee(s, BodiesOfAnn)
  \/ \E s \in Slots : CreateById(s)
  \/ \E s \in Slots : CreateByEmail(s)
  \/ \E s \in Slots : CreateInsert(s)
  \/ \E s \in Slots : DeleteEmployee(s, EmployeeIds)
  \/ \E s \in Slots : DeleteLookup(s)
  \/ \E s \in Slots : DeleteRun(s)
  \/ \E s \in Slots : RecordAttendance(s, BodiesOfOneDayOfOneEmployee)
  \/ \E s \in Slots : RecordEmployee(s)
  \/ \E s \in Slots : RecordExisting(s)
  \/ \E s \in Slots : RecordInsert(s)

InitRaces == InitServer /\ audit = {"raced"}

SpecRaces == InitRaces /\ [][NextRaces]_vars

InitRivals == InitServer /\ audit = {"rival"}

SpecRivals == InitRivals /\ [][NextRaces]_vars

\* All the handlers, invoked by concurrent clients on a store whose statements
\* may fail.
NextServer ==
  \/ \E s \in Slots : Fail(s)
  \/ \E s \in Slots : CreateEmployee(s, BodiesOfAnn)
  \/ \E s \in Slots : CreateById(s)
  \/ \E s \in Slots : CreateByEmail(s)
  \/ \E s \in Slots : CreateInsert(s)
  \/ \E s \in Slots : DeleteEmployee(s, EmployeeIds)
  \/ \E s \in Slots : DeleteLookup(s)
  \/ \E s \in Slots : DeleteRun(s)
  \/ \E s \in Slots : RecordAttendance(s, BodiesOfOneDay)
  \/ \E s \in Slots : RecordEmployee(s)
  \/ \E s \in Slots : RecordExisting(s)
  \/ \E s \in Slots : RecordInsert(s)
  \/ \E s \in Slots : ListEmployees(s)
  \/ \E s \in Slots : ListAll(s)
  \/ \E s \in Slots : QueryAttendance(s, QueriesOfOneEmployee)
  \/ \E s \in Slots : QueryEmployee(s)
  \/ \E s \in Slots : QueryRecords(s)
  \/ \E s \in Slots : GetSummary(s)
  \/ \E s \in Slots : SummaryEmployees(s)
  \/ \E s \in Slots : SummaryAttendance(s)
  \/ \E s \in Slots : SummaryPresent(s)
  \/ \E s \in Slots : SummaryPerEmployee(s)

SpecServer == Init /\ [][NextServer]_vars

(* ------------------------------ claims -------------------------------- *)

SameKey(a, b) == a.employee_id = b.employee_id /\ a.date = b.date

\* C1: in every step, the attendance table holds at most one record per
\* (employee_id, date); a Record request whose pair has a record in the store
\* when its INSERT runs is not answered 201, and no step of a Record request
\* removes or changes a stored record.
C1_OneRecordPerEmployeeAndDate ==
  [][/\ \A a, b \in attendance' : SameKey(a, b) => a = b
     /\ out'.kind = "record" =>
          /\ attendance \subseteq attendance'
          /\ AttendanceByKey(out'.req.employeeId, out'.req.date) # {}
               => out'.status # 201]_vars

\* C1 witness: two Records of one pair both passed the pre-check; the INSERT of
\* the second was rejected by the store, and the record of the first is there.
C1_Witness ==
  /\ out.kind = "record" /\ out.status = 500
  /\ \E a \in attendance :
       /\ a.employee_id = out.req.employeeId /\ a.date = out.req.date
       /\ a.status # out.req.status

\* C2: every attendance record references an employee that is in the store.
C2_NoOrphanRecord ==
  \A a \in attendance : \E e \in employees : e.employee_id = a.employee_id

\* C2 witness: a Delete ran between the employee check of a Record and its
\* INSERT, and the INSERT was rejected: the employee is gone and has no record.
C2_Witness ==
  /\ out.kind = "record" /\ out.status = 500
  /\ EmployeeById(out.req.employeeId) = {}
  /\ \A a \in attendance : a.employee_id # out.req.employeeId

\* C3: no two stored employees share an employee_id, and no two share an email.
C3_EmployeeIdAndEmailUnique ==
  \A e, f \in employees :
     (e.employee_id = f.employee_id \/ e.email = f.email) => e = f

\* C3 witness: two Creates with one email and two ids both passed both lookups;
\* the INSERT of the second was rejected, and the first holds the email.
C3_Witness ==
  /\ out.kind = "create" /\ out.status = 500
  /\ \E e \in employees :
       e.email = out.req.email /\ e.employee_id # out.req.employeeId

\* The slot s takes a step of its handler invocation.
Steps(s) == reqs[s].kind # "idle" /\ reqs'[s] # reqs[s]

\* The payload of a Create that passes the validation of lines 128-134.
ValidEmployee(body) ==
  /\ Truthy(body.employeeId) /\ Truthy(body.fullName)
  /\ Truthy(body.email) /\ Truthy(body.department)
  /\ isValidEmail(body.email)

\* The payload of a Record that passes the validation of lines 176-186.
ValidAttendance(body) ==
  /\ Truthy(body.employeeId) /\ Truthy(body.date) /\ Truthy(body.status)
  /\ isValidDate(body.date)
  /\ isValidStatus(body.status)

\* C5 as stated, for the payloads that pass validation: a Create whose
\* employeeId or email was used by an earlier successful Create is answered 409,
\* and no employee row is inserted or changed.
C5_AsStated ==
  [][out'.kind = "create" /\ outPrior' /\ ValidEmployee(out'.req)
       => out'.status = 409 /\ employees' = employees]_vars

\* C5, amended: a Create with a valid payload is answered 409, whatever its other
\* fields, when an employee with its employeeId is in the store as its id lookup
\* runs, or an employee with its email is in the store as its email lookup runs;
\* and a Create answered 400 or 409 inserts and changes no employee row.
C5_ConflictOnHeldIdOrEmail ==
  [][/\ \A s \in Slots :
          /\ Steps(s)
          /\ reqs[s].kind = "create"
          /\ \/ /\ reqs[s].pc = "byId"
                /\ \E e \in employees : e.employee_id = reqs[s].req.employeeId
             \/ /\ reqs[s].pc = "byEmail"
                /\ \E e \in employees : e.email = reqs[s].req.email
          => out'.kind = "create" /\ out'.status = 409 /\ out'.req = reqs[s].req
     /\ out'.kind = "create" /\ (out'.status = 400 \/ out'.status = 409)
          => employees' = employees]_vars

\* C5 witness: a Create was answered 409 for an email that a stored employee
\* with another id and another name holds.
C5_Witness ==
  /\ out.kind = "create" /\ out.status = 409
  /\ \E e \in employees :
       /\ e.email = out.req.email
       /\ e.employee_id # out.req.employeeId
       /\ e.full_name # out.req.fullName

\* C6 as stated, for the payloads that pass validation: a Record for an
\* (employeeId, date) that an earlier Record recorded is answered 409, and the
\* table is unchanged.
C6_AsStated ==
  [][out'.kind = "record" /\ outPrior' /\ ValidAttendance(out'.req)
       => out'.status = 409 /\ attendance' = attendance]_vars

\* C6, amended: a Record with a well-formed date and a valid status is answered
\* 409 when a record for its (employeeId, date) is in the store as its duplicate
\* lookup runs, whichever valid status it carries; and no step of a Record
\* changes or removes a stored record (its id, status and created_at stay).
C6_ConflictOnRecordedDate ==
  [][/\ \A s \in Slots :
          /\ Steps(s)
          /\ reqs[s].kind = "record"
          /\ reqs[s].pc = "existing"
          /\ \E a \in attendance : /\ a.employee_id = reqs[s].req.employeeId
                                   /\ a.date = reqs[s].req.date
          => out'.kind = "record" /\ out'.status = 409 /\ out'.req = reqs[s].req
     /\ \A s \in Slots : Steps(s) /\ reqs[s].kind = "record"
                           => attendance \subseteq attendance'
     /\ out'.kind = "record" /\ out'.status # 201 => attendance' = attendance]_vars

\* C6 witness: a Record was answered 409 for a pair whose stored record has
\* the other status.
C6_Witness ==
  /\ out.kind = "record" /\ out.status = 409
  /\ \E a \in attendance :
       /\ a.employee_id = out.req.employeeId /\ a.date = out.req.date
       /\ a.status # out.req.status

\* The rows of a result, as a set.
Rows(r) == {r[i] : i \in DOMAIN r}

\* The calendar date a well-formed date string denotes, as the number yyyymmdd.
DateNumber(d) ==
  LET Digit(i) == Ord(d[i]) - 48 IN
  (Digit(1) * 1000 + Digit(2) * 100 + Digit(3) * 10 + Digit(4)) * 10000
    + (Digit(6) * 10 + Digit(7)) * 100
    + (Digit(9) * 10 + Digit(10))

\* C4: a Delete answered 200 leaves no employee and no attendance record with
\* its employee_id; an employee_id enters the store only by a Create answered
\* 201 for it; a List returns exactly the stored employees; and no record that a
\* deleted employee owned is in the store or in the result of a later Query.
C4_DeleteRemovesEmployeeAndRecords ==
  [][/\ out'.kind = "delete" /\ out'.status = 200 =>
          /\ \A e \in employees' : e.employee_id # out'.req.employeeId
          /\ \A a \in attendance' : a.employee_id # out'.req.employeeId
     /\ \A e \in employees' :
          (\A f \in employees : f.employee_id # e.employee_id) =>
             /\ out'.kind = "create" /\ out'.status = 201
             /\ out'.req.employeeId = e.employee_id
     /\ out'.kind = "list" =>
          /\ Rows(out'.body.employees) = employees'
          /\ Len(out'.body.employees) = Cardinality(employees')
     /\ \A a \in attendance' : a \notin cascaded'
     /\ out'.kind = "query" /\ out'.status = 200 =>
          \A a \in Rows(out'.body.records) : a \notin cascaded']_vars

\* C4 witness: an employee was deleted with a record, created again and given
\* a new record; the Query for it returns the new record alone.
C4_Witness ==
  /\ out.kind = "query" /\ out.status = 200
  /\ Len(out.body.records) = 1
  /\ \E c \in cascaded :
       /\ c.employee_id = out.req.employeeId
       /\ c.date = out.body.records[1].date
       /\ c.id # out.body.records[1].id

\* C8: a Query answered 200 returns exactly the stored records of its employee
\* whose date lies between startDate and endDate (each bound inclusive, and
\* applied only if supplied), without repetition, in descending order of date;
\* with well-formed or absent filters the answer is 200, or 404 for an employee
\* that is not in the store.
C8_QueryReturnsInclusiveRangeDescending ==
  out.kind = "query" =>
    LET from == out.req.startDate
        to   == out.req.endDate
        r    == out.body.records
        InRange(a) ==
          /\ Truthy(from) => DateNumber(from) <= DateNumber(a.date)
          /\ Truthy(to) => DateNumber(a.date) <= DateNumber(to)
    IN  /\ (Truthy(from) => isValidDate(from)) /\ (Truthy(to) => isValidDate(to))
          => out.status = 200 \/ out.status = 404
        /\ out.status = 200 =>
             /\ Rows(r) = {a \in attendance :
                             a.employee_id = out.req.employeeId /\ InRange(a)}
             /\ Len(r) = Cardinality(Rows(r))
             /\ \A i, j \in DOMAIN r :
                  i < j => DateNumber(r[i].date) > DateNumber(r[j].date)

\* C8 witness: the employee has two records; the Query with a startDate equal
\* to the date of the later one returns that record and not the earlier one.
C8_Witness ==
  /\ out.kind = "query" /\ out.status = 200
  /\ Len(out.body.records) = 1
  /\ out.req.startDate = out.body.records[1].date
  /\ Cardinality({a \in attendance : a.employee_id = out.req.employeeId}) = 2

\* The sum of present_days over the rows of presentByEmployee.
RECURSIVE SumPresentDays(_)
SumPresentDays(rows) ==
  IF rows = <<>> THEN 0
  ELSE rows[1].present_days + SumPresentDays(Tail(rows))

\* C7 as stated: every Summary answered 200 has exactly one entry per employee
\* in the store and totals.present equal to the sum of present_days over
\* presentByEmployee, also when its four reads interleave with writes.
C7_AsStated ==
  out.kind = "summary" /\ out.status = 200 =>
    LET r == out.body.presentByEmployee IN
    /\ {r[i].employee_id : i \in DOMAIN r} = {e.employee_id : e \in employees}
    /\ Len(r) = Cardinality(employees)
    /\ out.body.totals.present = SumPresentDays(r)

\* C9: a Create with a valid payload whose employeeId and email no stored
\* employee holds is answered 201 and adds one row; the List of the store it
\* leaves has exactly one employee with that employeeId, carrying the fullName,
\* email and department of the payload, and every employee stored before, as it
\* was; a List returns the stored employees, each once.
C9_CreateThenListShowsOneMatch ==
  [][/\ ( /\ out'.kind = "create" /\ ValidEmployee(out'.req)
           /\ \A e \in employees :
                e.employee_id # out'.req.employeeId /\ e.email # out'.req.email )
          => /\ out'.status = 201
             /\ Cardinality(employees') = Cardinality(employees) + 1
             /\ \A rows \in OrderBy(employees', "created_at DESC") :
                  /\ \E i \in DOMAIN rows :
                       /\ rows[i].employee_id = out'.req.employeeId
                       /\ rows[i].full_name = out'.req.fullName
                       /\ rows[i].email = out'.req.email
                       /\ rows[i].department = out'.req.department
                       /\ \A j \in DOMAIN rows :
                            rows[j].employee_id = out'.req.employeeId => j = i
                  /\ \A e \in employees : \E i \in DOMAIN rows : rows[i] = e
     /\ out'.kind = "list" =>
          /\ out'.status = 200
          /\ Rows(out'.body.employees) = employees'
          /\ Len(out'.body.employees) = Cardinality(employees')
          /\ \A i, j \in DOMAIN out'.body.employees :
               i < j => out'.body.employees[i].created_at
                          >= out'.body.employees[j].created_at]_vars

\* C9 witness: a Create was answered 201 while another employee was stored,
\* and the store holds both.
C9_Witness ==
  /\ out.kind = "create" /\ out.status = 201
  /\ Cardinality(employees) = 2
  /\ \E e \in employees :
       e.employee_id = out.req.employeeId /\ e.full_name = out.req.fullName

\* The number of the stored records of employee `id` whose status is Present.
PresentDays(id) ==
  Cardinality({a \in attendance : a.employee_id = id /\ a.status = Present})

\* C10: a Summary during which no other request wrote the store has one entry
\* per stored employee, with present_days the number of that employee's Present
\* records (0 if none), ordered by present_days descending, then full_name
\* ascending; totals.employees and totals.attendance are the numbers of stored
\* employees and of stored attendance records.
C10_SummaryOnQuiescentStore ==
  out.kind = "summary" /\ ~outDirty =>
    LET r == out.body.presentByEmployee IN
    /\ out.status = 200
    /\ Len(r) = Cardinality(employees)
    /\ \A e \in employees :
         \E i \in DOMAIN r :
           /\ r[i].employee_id = e.employee_id
           /\ r[i].full_name = e.full_name
           /\ r[i].present_days = PresentDays(e.employee_id)
    /\ \A i, j \in DOMAIN r :
         i < j =>
           \/ r[i].present_days > r[j].present_days
           \/ /\ r[i].present_days = r[j].present_days
              /\ TextLeq(r[i].full_name, r[j].full_name)
    /\ out.body.totals.employees = Cardinality(employees)
    /\ out.body.totals.attendance = Cardinality(attendance)

\* C10 witness: on a store left alone, the Summary lists an employee with one
\* Present and one Absent record before an employee with no record.
C10_Witness ==
  /\ out.kind = "summary" /\ ~outDirty
  /\ Len(out.body.presentByEmployee) = 2
  /\ out.body.presentByEmployee[1].present_days = 1
  /\ out.body.presentByEmployee[2].present_days = 0
  /\ \E a \in attendance :
       /\ a.employee_id = out.body.presentByEmployee[1].employee_id
       /\ a.status = Absent

\* C11: in every step, a stored attendance record stays in the store as it is
\* (no row of the next state has its id with another employee_id, date, status
\* or created_at), unless the step is a Delete answered 200 for the employee the
\* record references; every step that is no Delete keeps all the records.
C11_RecordsKeptUntilEmployeeDeleted ==
  [][/\ \A a \in attendance :
          \/ a \in attendance'
          \/ /\ out'.kind = "delete" /\ out'.status = 200
             /\ out'.req.employeeId = a.employee_id
     /\ \A a \in attendance : \A b \in attendance' : b.id = a.id => b = a
     /\ out'.kind # "delete" => attendance \subseteq attendance']_vars

\* C11 witness: a Delete answered 200 removed the record of its employee while
\* the record of the other employee stayed.
C11_Witness ==
  /\ out.kind = "delete" /\ out.status = 200
  /\ seq = 2
  /\ Cardinality(attendance) = 1
  /\ \A a \in attendance : a.employee_id # out.req.employeeId

\* C12: every step of a handler invocation either sends nothing and leaves the
\* invocation in flight, or sends one response to its request and ends it (no
\* statement is issued again); a response with status 500 carries the fixed
\* message of the catch block of its handler and its step leaves the store as it
\* was; every error response has the body {error: message}, and none is the
\* response of the final error middleware.
C12_FailuresAnsweredLocally ==
  [][/\ \A s \in Slots :
          reqs[s].kind # "idle" /\ reqs'[s] # reqs[s] =>
            \/ out' = NoResponse /\ reqs'[s].kind = reqs[s].kind
            \/ /\ out'.kind = reqs[s].kind /\ out'.req = reqs[s].req
               /\ reqs'[s] = Idle
     /\ out' # NoResponse /\ out'.status = 500 =>
          /\ out'.body = Error(FailureMessage(out'.kind))
          /\ store' = store
     /\ out' # NoResponse /\ out'.status >= 400 =>
          /\ DOMAIN out'.body = {"error"}
          /\ out'.body # UnexpectedServerError]_vars

\* C12 witness: the last read of a Summary was rejected by the store, with
\* employees stored; the response is 500 with the message of its catch block.
C12_Witness ==
  /\ out.kind = "summary" /\ out.status = 500
  /\ out.body = Error("Failed to load summary.")
  /\ employees # {}
  /\ \A s \in Slots : reqs[s].kind # "summary"

\* C13: a Record is answered 400 only by its first step, which issues no store
\* statement, with the message of the first failing check in the order: missing
\* field, malformed date, status outside {Present, Absent}; only a valid request
\* goes on. Then the employee lookup answers 404 exactly if the employee is not
\* stored; else the duplicate lookup answers 409 exactly if a record for
\* (employeeId, date) is stored; else the INSERT runs, and a row enters the
\* attendance table only by a Record answered 201, one row per such answer.
C13_RecordChecksInOrder ==
  [][/\ out'.kind = "record" /\ out'.status = 400 =>
          LET b == out'.req IN
          /\ reqs' = reqs
          /\ store' = store
          /\ out'.body =
               Error(IF ~Truthy(b.employeeId) \/ ~Truthy(b.date) \/ ~Truthy(b.status)
                     THEN "Employee ID, date, and status are required."
                     ELSE IF ~isValidDate(b.date)
                     THEN "Date must be in YYYY-MM-DD format."
                     ELSE "Status must be Present or Absent.")
          /\ ~ValidAttendance(b)
     /\ \A s \in Slots :
          reqs[s].kind = "idle" /\ reqs'[s].kind = "record" =>
            ValidAttendance(reqs'[s].req) /\ reqs'[s].pc = "employee"
     /\ \A s \in Slots :
          reqs[s].kind = "record" /\ reqs'[s] # reqs[s] =>
            LET b == reqs[s].req
                known == \E e \in employees : e.employee_id = b.employeeId
                taken == \E a \in attendance :
                           a.employee_id = b.employeeId /\ a.date = b.date
            IN
            CASE reqs[s].pc = "employee" ->
                   IF known
                   THEN out' = NoResponse /\ reqs'[s].pc = "existing"
                   ELSE out'.kind = "record" /\ out'.status = 404 /\ out'.req = b
              [] reqs[s].pc = "existing" ->
                   IF taken
                   THEN out'.kind = "record" /\ out'.status = 409 /\ out'.req = b
                   ELSE out' = NoResponse /\ reqs'[s].pc = "insert"
              [] reqs[s].pc = "insert" ->
                   /\ out'.kind = "record" /\ out'.req = b
                   /\ out'.status = 201 \/ out'.status = 500
                   /\ out'.status = 201 <=> known /\ ~taken
     /\ attendance' \ attendance # {} =>
          /\ out'.kind = "record" /\ out'.status = 201
          /\ Cardinality(attendance' \ attendance) = 1
     /\ out'.kind = "record" /\ out'.status = 201 =>
          \E a \in attendance' \ attendance :
            /\ a.employee_id = out'.req.employeeId
            /\ a.date = out'.req.date
            /\ a.status = out'.req.status]_vars

\* C13 witness: a Record with a status outside {Present, Absent} for an
\* employee that is not stored is answered 400.
C13_Witness ==
  /\ out.kind = "record" /\ out.status = 400
  /\ Truthy(out.req.employeeId) /\ isValidDate(out.req.date)
  /\ EmployeeById(out.req.employeeId) = {}
  /\ \A s \in Slots : reqs[s].kind = "idle"

\* C14: a Create is answered 400 only by its first step, which issues no store
\* statement, with the message of the first failing check in the order: missing
\* or empty field, malformed email; only a valid request goes on. Then the
\* employee_id lookup answers 409 'Employee ID already exists.' exactly if the
\* id is stored (whether or not the email is stored too); else the email lookup
\* answers 409 'Email already exists.' exactly if the email is stored; else the
\* INSERT runs, and a row enters the employees table only by a Create answered
\* 201, one row per such answer.
C14_CreateChecksInOrder ==
  [][/\ out'.kind = "create" /\ out'.status = 400 =>
          LET b == out'.req IN
          /\ reqs' = reqs
          /\ store' = store
          /\ out'.body =
               Error(IF ~Truthy(b.employeeId) \/ ~Truthy(b.fullName)
                          \/ ~Truthy(b.email) \/ ~Truthy(b.department)
                     THEN "All fields are required."
                     ELSE "Email format is invalid.")
          /\ ~ValidEmployee(b)
     /\ \A s \in Slots :
          reqs[s].kind = "idle" /\ reqs'[s].kind = "create" =>
            ValidEmployee(reqs'[s].req) /\ reqs'[s].pc = "byId"
     /\ \A s \in Slots :
          reqs[s].kind = "create" /\ reqs'[s] # reqs[s] =>
            LET b == reqs[s].req
                idHeld == \E e \in employees : e.employee_id = b.employeeId
                emailHeld == \E e \in employees : e.email = b.email
            IN
            CASE reqs[s].pc = "byId" ->
                   IF idHeld
                   THEN out' = Reply("create", b, 409,
                                     Error("Employee ID already exists."))
                   ELSE out' = NoResponse /\ reqs'[s].pc = "byEmail"
              [] reqs[s].pc = "byEmail" ->
                   IF emailHeld
                   THEN out' = Reply("create", b, 409, Error("Email already exists."))
                   ELSE out' = NoResponse /\ reqs'[s].pc = "insert"
              [] reqs[s].pc = "insert" ->
                   /\ out'.kind = "create" /\ out'.req = b
                   /\ out'.status = 201 \/ out'.status = 500
                   /\ out'.status = 201 <=> ~idHeld /\ ~emailHeld
     /\ employees' \ employees # {} =>
          /\ out'.kind = "create" /\ out'.status = 201
          /\ Cardinality(employees' \ employees) = 1
     /\ out'.kind = "create" /\ out'.status = 201 =>
          \E e \in employees' \ employees :
            /\ e.employee_id = out'.req.employeeId
            /\ e.email = out'.req.email]_vars

\* C14 witness: a Create whose employeeId and email are both held by the stored
\* employee is answered 409 as an employee-ID conflict.
C14_Witness ==
  /\ out.kind = "create" /\ out.status = 409
  /\ out.body = Error("Employee ID already exists.")
  /\ \E e \in employees :
       e.employee_id = out.req.employeeId /\ e.email = out.req.email

\* C15: the first step of a Query validates nothing and issues the employee
\* lookup. The step in which the lookup runs answers 404 if the employee is not
\* stored, whatever the filters; else 400 for a supplied malformed startDate;
\* else 400 for a supplied malformed endDate; else it issues the SELECT, whose
\* WHERE clause has a condition on the date for exactly the filters that are
\* supplied (neither absent nor empty).
C15_QueryChecksEmployeeBeforeFilters ==
  [][/\ \A s \in Slots :
          reqs[s].kind = "idle" /\ reqs'[s].kind = "query" =>
            out' = NoResponse /\ reqs'[s].pc = "employee"
     /\ out'.kind = "query" =>
          \E s \in Slots : reqs[s].kind = "query" /\ reqs'[s] = Idle
     /\ \A s \in Slots :
          reqs[s].kind = "query" /\ reqs[s].pc = "employee" /\ reqs'[s] # reqs[s] =>
            LET q == reqs[s].req
                known == \E e \in employees : e.employee_id = q.employeeId
                badStart == Truthy(q.startDate) /\ ~isValidDate(q.startDate)
                badEnd == Truthy(q.endDate) /\ ~isValidDate(q.endDate)
                Has(clause) == \E i \in DOMAIN reqs'[s].where :
                                 reqs'[s].where[i] = clause
            IN
            IF ~known
            THEN out' = Reply("query", q, 404, Error("Employee not found."))
            ELSE IF badStart
            THEN out' = Reply("query", q, 400,
                              Error("Start date must be in YYYY-MM-DD format."))
            ELSE IF badEnd
            THEN out' = Reply("query", q, 400,
                              Error("End date must be in YYYY-MM-DD format."))
            ELSE /\ out' = NoResponse /\ reqs'[s].pc = "records"
                 /\ Has("date >= ?") <=> Truthy(q.startDate)
                 /\ Has("date <= ?") <=> Truthy(q.endDate)
                 /\ Len(reqs'[s].where) = Len(reqs'[s].params)]_vars

\* C15 witness: a Query with a malformed startDate and a malformed endDate for
\* an employee that is not stored is answered 404.
C15_Witness ==
  /\ out.kind = "query" /\ out.status = 404
  /\ out.req.startDate = BadDate /\ out.req.endDate = BadDate
  /\ attendance # {}

\* C16: on the three write paths the lookup and the write are separate steps:
\* the step in which a lookup of a handler runs leaves the store as it was, and
\* the store changes only in a step that ends an invocation which awaited its
\* write statement; and when a write path enters the history of the races, two
\* invocations in flight await the write statement of that path for one key,
\* both having passed their lookups.
C16_CheckAndWriteAreSeparateSteps ==
  [][/\ \A s \in Slots :
          reqs[s].kind # "idle" /\ reqs[s].pc \in LookupSteps /\ reqs'[s] # reqs[s]
            => store' = store
     /\ store' # store =>
          \E s \in Slots :
            /\ reqs[s].kind # "idle" /\ reqs[s].pc \in WriteSteps
            /\ reqs'[s] = Idle
     /\ \A p \in raced' \ raced :
          /\ store' = store
          /\ \E s \in Slots : \E t \in Slots \ {s} :
               /\ AtWrite(reqs'[s], p) /\ AtWrite(reqs'[t], p)
               /\ SameTarget(p, reqs'[s].req, reqs'[t].req)
               /\ reqs'[s].pc \in WriteSteps /\ reqs'[t].pc \in WriteSteps]_vars

\* C16 witness: on each write path (Create by employeeId, Create by email,
\* Record, Delete) two requests for one key have stood before their write
\* statement together.
C16_Witness ==
  /\ raced = WritePaths
  /\ \E s \in Slots : \E t \in Slots \ {s} :
       /\ reqs[s].kind = "record" /\ reqs[s].pc = "insert"
       /\ reqs[t].kind = "record" /\ reqs[t].pc = "insert"
       /\ reqs[s].req.employeeId = reqs[t].req.employeeId
       /\ reqs[s].req.date = reqs[t].req.date

\* C17 as stated: a Create or Record that was in flight when a request with its
\* key was answered 201 is itself answered 409 or 500.
C17_AsStated ==
  (out.kind = "create" \/ out.kind = "record") /\ outRival.won
    => out.status = 409 \/ out.status = 500

\* C17: the store has at most one employee per employee_id and per email and
\* at most one attendance record per (employee_id, date); a Create or Record
\* that was in flight when a request with its key was answered 201 is answered
\* 409 or 500 as long as no Delete answered 200 has removed the row that request
\* inserted.
C17_OneWinnerWhileItsRowStands ==
  /\ \A e \in employees : \A f \in employees :
       e.employee_id = f.employee_id \/ e.email = f.email => e = f
  /\ \A a \in attendance : \A b \in attendance :
       a.employee_id = b.employee_id /\ a.date = b.date => a = b
  /\ (out.kind = "create" \/ out.kind = "record") /\ outRival.standing # {}
       => out.status = 409 \/ out.status = 500
  /\ \A s \in Slots :
       rival[s].standing # {} =>
         /\ rival[s].won
         /\ \A id \in rival[s].standing : \E e \in employees : e.employee_id = id

\* C17 witness: two Creates with one email and two employeeIds passed their
\* lookups together; one was answered 201, the other 500.
C17_Witness ==
  /\ out.kind = "create" /\ out.status = 500
  /\ outRival.standing # {}
  /\ \A e \in employees : e.employee_id # out.req.employeeId
  /\ \E e \in employees : e.email = out.req.email

\* C18: a step that sends no response, or a response with status 400, 404, 409
\* or 500, or a response of List, Query or Summary, leaves the store as it was;
\* the tables change only in the step that answers a Create 201 (one employee
\* added, attendance kept), a Record 201 (one record added, employees kept) or a
\* Delete 200 (rows of its employee removed, nothing added).
C18_OnlySuccessfulWritesChangeTheStore ==
  [][/\ out' = NoResponse => store' = store
     /\ out' # NoResponse /\ out'.status >= 400 => store' = store
     /\ out'.kind = "list" \/ out'.kind = "query" \/ out'.kind = "summary"
          => store' = store
     /\ employees' # employees \/ attendance' # attendance =>
          \/ /\ out'.kind = "create" /\ out'.status = 201
             /\ employees \subseteq employees' /\ attendance' = attendance
             /\ Cardinality(employees') = Cardinality(employees) + 1
          \/ /\ out'.kind = "record" /\ out'.status = 201
             /\ attendance \subseteq attendance' /\ employees' = employees
             /\ Cardinality(attendance') = Cardinality(attendance) + 1
          \/ /\ out'.kind = "delete" /\ out'.status = 200
             /\ employees' \subseteq employees /\ attendance' \subseteq attendance
             /\ \A e \in employees \ employees' :
                  e.employee_id = out'.req.employeeId
             /\ \A a \in attendance \ attendance' :
                  a.employee_id = out'.req.employeeId]_vars

\* C18 witness: a Record whose INSERT was rejected is answered 500 with the
\* employee and the record of another request in the store.
C18_Witness ==
  /\ out.kind = "record" /\ out.status = 500
  /\ \E e \in employees : e.employee_id = out.req.employeeId
  /\ \E a \in attendance :
       a.employee_id = out.req.employeeId /\ a.date = out.req.date

====
